---------------------------- MODULE Spec2Model ----------------------------
(* Model of the schema-less protobuf tokenizer (example-parser.rs) and of   *)
(* the display-only guesser (src/guesser.rs, src/core.rs).                  *)
(*                                                                          *)
(* Bytes are integers 0..255 and a slice is a sequence of bytes.  A cursor  *)
(* is the number of bytes already consumed (the index of the next byte,     *)
(* counted from 0, as in DataReader).                                       *)
(*                                                                          *)
(* u64 values read from varints are kept exactly as a record                *)
(*   [lo |-> the low 28 bits, hi |-> the 7-bit groups above them]           *)
(* because the checker's integers are 32 bit wide.                          *)
(*                                                                          *)
(* usize values that the code obtains by subtraction are kept as integers;  *)
(* a negative integer -d stands for the wrapped value 2^64 - d that a       *)
(* release build computes, and a debug build panics instead.                *)
EXTENDS Integers, Sequences, FiniteSets, TLC

VARIABLES
    stream,     \* the whole logical byte stream of this run
    rest,       \* the bytes of stream not yet handed to the parser
    base,       \* offset in stream of the first byte of the current slice
    nslice,     \* number of slices handed over so far
    input,      \* DataReader.input : the current slice
    cursor,     \* DataReader.cursor
    messages,   \* ParserContext.messages
    error,      \* ParserContext.error
    build,      \* "debug" (overflow checks on) or "release" (wrapping)
    panicked,   \* the thread panicked (arithmetic overflow in a debug build)
    tokens,     \* the tokens returned so far, each a sequence of bytes
    spans,      \* for each token, <<start, end>> as offsets of its slice plus base
    last,       \* what the last next_token call did
    data,       \* the byte range handed to the two classifiers
    strict,     \* result of example-parser guess_is_message on data
    relaxed,    \* result of guesser::guess_is_message on data
    wire        \* result of one wire primitive of example-parser.rs on data

vars == <<stream, rest, base, nslice, input, cursor, messages, error, build,
          panicked, tokens, spans, last, data, strict, relaxed, wire>>

tokVars == <<stream, rest, base, nslice, input, cursor, messages, error, build,
             panicked, tokens, spans, last>>

guessVars == <<data, strict, relaxed, wire>>

-----------------------------------------------------------------------------
(* Small helpers                                                            *)

Min(a, b) == IF a < b THEN a ELSE b

RECURSIVE Pow(_, _)
Pow(b, e) == IF e = 0 THEN 1 ELSE b * Pow(b, e - 1)

RECURSIVE Rep(_, _)
Rep(b, n) == IF n = 0 THEN <<>> ELSE <<b>> \o Rep(b, n - 1)

\* unsigned comparison of two usize values (negative = wrapped, i.e. huge)
ULt(a, b) ==
    IF (a < 0) = (b < 0) THEN a < b ELSE b < 0

-----------------------------------------------------------------------------
(* DataReader: the byte cursor over one slice                               *)

\* DataReader::remains
remains(inp, c) == Len(inp) - c

\* DataReader::eof
eof(inp, c) == c >= Len(inp)

\* DataReader::peek(n) / read(n) succeed iff n bytes are left (atomic)
has(inp, c, n) == n >= 0 /\ c + n <= Len(inp)

\* the n bytes at the cursor
bytesAt(inp, c, n) == SubSeq(inp, c + 1, c + n)

\* DataReader::skip(n): the cursor after the call; on failure it is the end
skipTo(inp, c, n) == IF has(inp, c, n) THEN c + n ELSE Len(inp)

\* DataReader::seek(offset) succeeds iff the offset lies in the slice
canSeek(inp, off) == off >= 0 /\ off <= Len(inp)

-----------------------------------------------------------------------------
(* Wire primitives of example-parser.rs                                     *)

NoVal == [lo |-> 0, hi |-> <<>>]

\* the value is below 2^28
IsSmall(v) == \A i \in 1..Len(v.hi) : v.hi[i] = 0

\* HugeLen stands for every length of 2^28 or more: no slice is that long
HugeLen == Pow(2, 28)

\* a u64 used as a usize length
AsLen(v) == IF IsSmall(v) THEN v.lo ELSE HugeLen

\* one step of the loop of read_varint: pos groups are already read
RECURSIVE varintLoop(_, _, _, _)
varintLoop(inp, c, pos, acc) ==
    IF eof(inp, c) THEN [st |-> "VarintEof", c |-> c, val |-> NoVal]
    ELSE LET x    == inp[c + 1]
             bits == x % 128
             acc2 == IF pos < 4
                     THEN [acc EXCEPT !.lo = acc.lo + bits * Pow(128, pos)]
                     ELSE [acc EXCEPT !.hi =
                              Append(acc.hi, IF pos = 9 THEN bits % 2 ELSE bits)]
         IN  IF x < 128 THEN [st |-> "Ok", c |-> c + 1, val |-> acc2]
             ELSE IF pos + 1 = 10
                  THEN [st |-> "InvalidData", c |-> c + 1, val |-> NoVal]
                  ELSE varintLoop(inp, c + 1, pos + 1, acc2)

\* mutant: the first group is shifted as if it were the second
read_varint_fromOne(inp, c) == varintLoop(inp, c, 1, NoVal)

\* mutant: running out of bytes is reported as InvalidData
read_varint_eofAsInvalid(inp, c) ==
    IF varintLoop(inp, c, 0, NoVal).st = "VarintEof"
    THEN [varintLoop(inp, c, 0, NoVal) EXCEPT !.st = "InvalidData"]
    ELSE varintLoop(inp, c, 0, NoVal)

read_varint(inp, c) == varintLoop(inp, c, 0, NoVal)

\* WireType::try_from on the low three bits
\* mutant: the codes of the two fixed widths are exchanged
WireTypeOf_fixedSwapped(code) ==
    CASE code = 0 -> "Varint"
      [] code = 1 -> "ThirtyTwoBit"
      [] code = 2 -> "Chunk"
      [] code = 3 -> "StartGroup"
      [] code = 4 -> "EndGroup"
      [] code = 5 -> "SixtyFourBit"
      [] OTHER    -> "Err"

WireTypeOf(code) ==
    CASE code = 0 -> "Varint"
      [] code = 1 -> "SixtyFourBit"
      [] code = 2 -> "Chunk"
      [] code = 3 -> "StartGroup"
      [] code = 4 -> "EndGroup"
      [] code = 5 -> "ThirtyTwoBit"
      [] OTHER    -> "Err"

\* tag_varint >> 3 fits a u32: nothing above bit 34 is set
FitsU32(v) == \A i \in 2..Len(v.hi) : v.hi[i] = 0

\* tag_varint >> 3, as [lo |-> low 25 bits, hi |-> the next 7 bits]
FieldNumber(v) ==
    [lo |-> v.lo \div 8, hi |-> IF Len(v.hi) >= 1 THEN v.hi[1] ELSE 0]

\* mutant: only field number 0 is rejected
BadFieldNumber_zeroOnly(f) == f.hi = 0 /\ f.lo = 0

\* field_number == 0 || (19000 <= field_number && field_number <= 19999)
BadFieldNumber(f) ==
    f.hi = 0 /\ (f.lo = 0 \/ (19000 <= f.lo /\ f.lo <= 19999))

\* read_tag once its varint r is read
tagOf(r) ==
    LET f   == FieldNumber(r.val)
        wt  == WireTypeOf(r.val.lo % 8)
        bad == [st |-> "InvalidData", c |-> r.c, fn |-> f, wt |-> "Err"]
    IN  IF r.st # "Ok" THEN [st |-> r.st, c |-> r.c, fn |-> f, wt |-> "Err"]
        ELSE IF ~FitsU32(r.val) THEN bad
        ELSE IF wt = "Err" THEN bad
        ELSE IF BadFieldNumber(f) THEN bad
        ELSE [st |-> "Ok", c |-> r.c, fn |-> f, wt |-> wt]

read_tag(inp, c) == tagOf(read_varint(inp, c))

\* Error::Eof(width - reader.remains()) after reader.skip(width) failed
fixedSkip(inp, c, width) ==
    IF has(inp, c, width)
    THEN [st |-> "Ok", c |-> c + width, n |-> 0, chunk |-> FALSE, length |-> NoVal]
    ELSE LET c2 == skipTo(inp, c, width)
         IN  [st |-> "Eof", c |-> c2, n |-> width - remains(inp, c2),
              chunk |-> FALSE, length |-> NoVal]

\* TaggedData::Others, or the error that kept the field from being read
Others(st, c) ==
    [st |-> st, c |-> c, n |-> 0, chunk |-> FALSE, length |-> NoVal]

\* WireType::Varint: the value varint v is read and dropped
varintField(v) == Others(v.st, v.c)

\* mutant: the first byte of the body is consumed with the header
chunkField_intoBody(v) ==
    IF v.st # "Ok" THEN Others(v.st, v.c)
    ELSE [st |-> "Ok", c |-> v.c + 1, n |-> 0, chunk |-> TRUE, length |-> v.val]

\* WireType::Chunk: the length varint v is read
chunkField(v) ==
    IF v.st # "Ok" THEN Others(v.st, v.c)
    ELSE [st |-> "Ok", c |-> v.c, n |-> 0, chunk |-> TRUE, length |-> v.val]

\* the `match wire_type` of read_tagged_data, for the tag t
taggedOf(inp, t) ==
    IF t.st # "Ok" THEN Others(t.st, t.c)
    ELSE CASE t.wt \in {"StartGroup", "EndGroup"} -> Others("Ok", t.c)
           [] t.wt = "Varint" -> varintField(read_varint(inp, t.c))
           [] t.wt = "ThirtyTwoBit" -> fixedSkip(inp, t.c, 4)
           [] t.wt = "SixtyFourBit" -> fixedSkip(inp, t.c, 8)
           [] t.wt = "Chunk" -> chunkField(read_varint(inp, t.c))

read_tagged_data(inp, c) == taggedOf(inp, read_tag(inp, c))

-----------------------------------------------------------------------------
(* The strict classifier: guess_is_message of example-parser.rs             *)

\* chunk lengths above this count as weird (strict preset)
StrictMaxChunk == 100

\* number of leading fields the classifiers probe
ProbeFields == 3

\* mutant: the newline is not excepted
IsCtrl_withNewline(b) == b < 32

IsCtrl(b) == b < 32 /\ b # 10

\* bytes.iter().any(|c| *c < 32 && *c != b'\n') over peek(4.min(remains))
ctrlInWindow(d, c) ==
    \E i \in (c + 1)..(c + Min(4, remains(d, c))) : IsCtrl(d[i])

GuessOk(v) == [ok |-> TRUE, v |-> v, err |-> "None"]

GuessErr(e) == [ok |-> FALSE, v |-> FALSE, err |-> e]

\* mutant: the control character is not required (the relaxed rule)
strictVerdict_noCtrl(ctrl, weird) == weird <= 1

\* the final verdict of the strict classifier
strictVerdict(ctrl, weird) == ctrl /\ weird <= 1

\* the end of one pass of `for _ in 0..3`: break at the end of the range
RECURSIVE guessLoop(_, _, _, _, _)
guessNext(d, c, i, ctrl, weird) ==
    IF eof(d, c) THEN GuessOk(strictVerdict(ctrl, weird))
    ELSE guessLoop(d, c, i + 1, ctrl, weird)

\* mutant: an empty chunk is not weird
guessChunk_emptyNotWeird(d, i, ctrl, weird, v, length) ==
    IF v.st # "Ok" THEN GuessErr(v.st)
    ELSE IF has(d, v.c, length)
    THEN guessNext(d, v.c + length, i, ctrl,
                   IF length > StrictMaxChunk THEN weird + 1 ELSE weird)
    ELSE GuessErr("InvalidData")

\* WireType::Chunk in the classifier: the length varint v is read
guessChunk(d, i, ctrl, weird, v, length) ==
    IF v.st # "Ok" THEN GuessErr(v.st)
    ELSE IF has(d, v.c, length)
    THEN guessNext(d, v.c + length, i, ctrl,
                   IF length > StrictMaxChunk \/ length = 0 THEN weird + 1
                   ELSE weird)
    ELSE GuessErr("InvalidData")

\* WireType::Varint in the classifier: the value varint v is read
guessVarint(d, i, ctrl, weird, v) ==
    IF v.st # "Ok" THEN GuessErr(v.st) ELSE guessNext(d, v.c, i, ctrl, weird)

\* the `match wire_type` of the classifier, for the tag t
guessField(d, i, ctrl, weird, t) ==
    IF t.st # "Ok" THEN GuessErr(t.st)
    ELSE CASE t.wt \in {"StartGroup", "EndGroup"} ->
                guessNext(d, t.c, i, ctrl, weird)
           [] t.wt = "ThirtyTwoBit" ->
                IF has(d, t.c, 4) THEN guessNext(d, t.c + 4, i, ctrl, weird)
                ELSE GuessErr("InvalidData")
           [] t.wt = "SixtyFourBit" ->
                IF has(d, t.c, 8)
                THEN guessNext(d, t.c + 8, i, ctrl,
                               IF d[t.c + 8] \in {0, 255} THEN weird
                               ELSE weird + 1)
                ELSE GuessErr("InvalidData")
           [] t.wt = "Chunk" ->
                guessChunk(d, i, ctrl, weird, read_varint(d, t.c),
                           AsLen(read_varint(d, t.c).val))
           [] t.wt = "Varint" ->
                guessVarint(d, i, ctrl, weird, read_varint(d, t.c))

\* the body of `for _ in 0..3`: i fields are already probed
guessLoop(d, c, i, ctrl, weird) ==
    IF i = ProbeFields THEN GuessOk(strictVerdict(ctrl, weird))
    ELSE guessField(d, i, ctrl \/ ctrlInWindow(d, c), weird, read_tag(d, c))

guess_is_message(d) == guessLoop(d, 0, 0, FALSE, 0)

\* mutant: an error of the classifier counts as a message
looksLikeMessage_errIsMessage(d) ==
    guess_is_message(d) = GuessOk(TRUE) \/ ~guess_is_message(d).ok

\* guess_is_message(chunk_reader).unwrap_or(false)
looksLikeMessage(d) == guess_is_message(d) = GuessOk(TRUE)

-----------------------------------------------------------------------------
(* Context stack and persisted error state                                  *)

NoneLen == [some |-> FALSE, v |-> 0]

SomeLen(n) == [some |-> TRUE, v |-> n]

\* MessageContext::new.  abs and declared are history fields: the offset in
\* the logical stream where the context was pushed, and the chunk's declared
\* length.  No operation reads them.
NewContext(start, length, abs, declared) ==
    [start |-> start, length |-> length, abs |-> abs, declared |-> declared]

RootContext == NewContext(0, NoneLen, 0, 0)

ErrNone == [kind |-> "None", n |-> 0]

ErrVarintEof == [kind |-> "VarintEof", n |-> 0]

ErrEof(n) == [kind |-> "Eof", n |-> n]

ErrInvalid == [kind |-> "InvalidData", n |-> 0]

\* a usize subtraction a - b overflows
Underflows(a, b) == ULt(a, b)

\* MessageContext::shift would panic in a build with overflow checks
shiftPanics(m, extra) ==
    m.length.some /\
      (Underflows(m.length.v, m.start) \/ Underflows(m.length.v - m.start, extra))

\* MessageContext::shift
shift(m, extra) ==
    [m EXCEPT !.length = IF m.length.some
                         THEN SomeLen(m.length.v - m.start - extra)
                         ELSE NoneLen,
              !.start = 0]

\* ParserContext::prepare_for_next_slice
prepare_for_next_slice(msgs, err, remain, current_error, bld) ==
    IF err.kind = "InvalidData"
    THEN [messages |-> msgs, error |-> err, panic |-> FALSE]
    ELSE IF bld = "debug" /\ \E i \in 1..Len(msgs) : shiftPanics(msgs[i], remain)
    THEN [messages |-> msgs, error |-> err, panic |-> TRUE]
    ELSE [messages |-> [i \in 1..Len(msgs) |-> shift(msgs[i], remain)],
          error |-> current_error, panic |-> FALSE]

-----------------------------------------------------------------------------
(* The incremental tokenizer                                                *)

\* what find_next_chunk returns, and the cursor it leaves
Found(st, c, len, n) == [st |-> st, c |-> c, length |-> len, n |-> n]

\* find_next_chunk: the loop `while !reader.eof()` over one context
RECURSIVE find_next_chunk(_, _, _, _)
findStep(inp, m, bld, td) ==
    IF td.st # "Ok" THEN Found(td.st, td.c, NoVal, td.n)
    ELSE IF td.chunk THEN Found("Some", td.c, td.length, 0)
    ELSE find_next_chunk(inp, td.c, m, bld)

find_next_chunk(inp, c, m, bld) ==
    IF eof(inp, c) THEN Found("NoChunk", c, NoVal, 0)
    ELSE IF m.length.some /\ bld = "debug" /\ Underflows(c, m.start)
    THEN Found("Panic", c, NoVal, 0)
    ELSE IF m.length.some /\ c - m.start = m.length.v
    THEN Found("NoChunk", c, NoVal, 0)
    ELSE IF m.length.some /\ ULt(m.length.v, c - m.start)
    THEN Found("InvalidData", c, NoVal, 0)
    ELSE findStep(inp, m, bld, read_tagged_data(inp, c))

\* what a call of read_next_token_raw leaves behind and returns: the return
\* value (ret, tok), the cursor c, the parser context (messages, error); and,
\* as history, the offset `at` of the token in the slice, the return path ev
\* and the context ctx that a backtrack re-read
Outcome(ret, tok, at, c, msgs, err, ev) ==
    [ret |-> ret, tok |-> tok, at |-> at, c |-> c, messages |-> msgs,
     error |-> err, ev |-> ev, ctx |-> RootContext]

\* return None after prepare_for_next_slice gave p
stopWith(c, msgs, err, ev, p) ==
    IF p.panic THEN Outcome("Panic", <<>>, 0, c, msgs, err, "panic")
    ELSE Outcome("None", <<>>, 0, c, p.messages, p.error, ev)

\* leaving through prepare_for_next_slice(reader.remains(), current_error)
saveAndStop(inp, c, msgs, err, current_error, bld, ev) ==
    stopWith(c, msgs, err, ev,
             prepare_for_next_slice(msgs, err, remains(inp, c), current_error, bld))

\* mutant: the backtrack pops the parent of the context as well
backtrack_popsTwo(inp, c, msgs, err) ==
    LET m == msgs[Len(msgs)]
    IN  IF has(inp, m.start, m.length.v)
        THEN Outcome("Some", bytesAt(inp, m.start, m.length.v), m.start,
                     m.start + m.length.v, SubSeq(msgs, 1, Len(msgs) - 2), err,
                     "backtrack")
        ELSE Outcome("None", <<>>, 0, c, msgs, err, "seekfail")

\* mutant: the backtrack returns the chunk, keeps its context and leaves the
\* cursor at the start of the chunk
backtrack_rewinds(inp, c, msgs, err) ==
    LET m == msgs[Len(msgs)]
    IN  IF has(inp, m.start, m.length.v)
        THEN Outcome("Some", bytesAt(inp, m.start, m.length.v), m.start,
                     m.start, msgs, err, "backtrack")
        ELSE Outcome("None", <<>>, 0, c, msgs, err, "seekfail")

\* Err(Error::InvalidData) inside a bounded context: seek back and re-read it
backtrack(inp, c, msgs, err) ==
    LET m == msgs[Len(msgs)]
        popped == SubSeq(msgs, 1, Len(msgs) - 1)
    IN  IF ~canSeek(inp, m.start)
        THEN Outcome("None", <<>>, 0, c, msgs, err, "seekfail")
        ELSE IF has(inp, m.start, m.length.v)
        THEN [Outcome("Some", bytesAt(inp, m.start, m.length.v), m.start,
                      m.start + m.length.v, popped, err, "backtrack")
                EXCEPT !.ctx = m]
        ELSE Outcome("None", <<>>, 0, m.start, popped, err, "backtrackfail")

\* mutant: the chunk is returned but not skipped
emitToken_noSkip(inp, c, length, msgs, err) ==
    Outcome("Some", bytesAt(inp, c, length), c, c, msgs, err, "token")

\* reader.skip(length) and return Some(chunk)
emitToken(inp, c, length, msgs, err) ==
    Outcome("Some", bytesAt(inp, c, length), c, c + length, msgs, err, "token")

\* the loop `while !reader.eof()` of read_next_token_raw; abs0 is the offset
\* of the slice in the logical stream (history only)
RECURSIVE tokenLoop(_, _, _, _, _, _)

\* mutant: the push consumes the chunk
onChunk_skipsOnPush(inp, c, length, msgs, err, bld, abs0) ==
    IF ~has(inp, c, length)
    THEN Outcome("None", <<>>, 0, c, msgs, err, "peekfail")
    ELSE IF looksLikeMessage(bytesAt(inp, c, length))
    THEN tokenLoop(inp, c + length,
                   Append(msgs, NewContext(c, SomeLen(length), abs0 + c, length)),
                   err, bld, abs0)
    ELSE emitToken(inp, c, length, msgs, err)

\* Ok(Some(length)): the chunk header is read and the cursor c is behind it
onChunk(inp, c, length, msgs, err, bld, abs0) ==
    IF ~has(inp, c, length)
    THEN Outcome("None", <<>>, 0, c, msgs, err, "peekfail")
    ELSE IF looksLikeMessage(bytesAt(inp, c, length))
    THEN tokenLoop(inp, c,
                   Append(msgs, NewContext(c, SomeLen(length), abs0 + c, length)),
                   err, bld, abs0)
    ELSE emitToken(inp, c, length, msgs, err)

\* the `match chunk_length` for the result r of find_next_chunk in context m
tokenStep(inp, m, msgs, err, bld, abs0, r) ==
    CASE r.st = "Panic" -> Outcome("Panic", <<>>, 0, r.c, msgs, err, "panic")
      [] r.st = "Some" ->
            onChunk(inp, r.c, AsLen(r.length), msgs, err, bld, abs0)
      [] r.st = "NoChunk" ->
            IF m.length.some
            THEN tokenLoop(inp, r.c, SubSeq(msgs, 1, Len(msgs) - 1), err, bld, abs0)
            ELSE saveAndStop(inp, r.c, msgs, err,
                             IF eof(inp, r.c) THEN ErrNone ELSE ErrInvalid,
                             bld, "rootdone")
      [] r.st = "InvalidData" ->
            IF m.length.some THEN backtrack(inp, r.c, msgs, err)
            ELSE saveAndStop(inp, r.c, msgs, err, ErrInvalid, bld, "rootcorrupt")
      [] r.st = "VarintEof" ->
            saveAndStop(inp, r.c, msgs, err, ErrVarintEof, bld, "trunc")
      [] r.st = "Eof" ->
            saveAndStop(inp, r.c, msgs, err, ErrEof(r.n), bld, "trunc")

tokenLoop(inp, c, msgs, err, bld, abs0) ==
    IF eof(inp, c) THEN Outcome("None", <<>>, 0, c, msgs, ErrEof(0), "eos")
    ELSE IF msgs = <<>> THEN Outcome("None", <<>>, 0, c, msgs, err, "nostack")
    ELSE tokenStep(inp, msgs[Len(msgs)], msgs, err, bld, abs0,
                   find_next_chunk(inp, c, msgs[Len(msgs)], bld))

\* the match goes on to the loop, with cursor c and persisted error e
Go(c, msgs, e) ==
    [stop |-> FALSE, out |-> Outcome("None", <<>>, 0, c, msgs, e, "go")]

\* the match returns o
Halt(o) == [stop |-> TRUE, out |-> o]

\* Some(Error::Eof(length)): reader.skip(length) and its two outcomes
resumeEof(inp, c, msgs, err, bld) ==
    IF has(inp, c, err.n) THEN Go(c + err.n, msgs, ErrNone)
    ELSE Halt(saveAndStop(inp, skipTo(inp, c, err.n), msgs, err,
                          ErrEof(err.n - remains(inp, skipTo(inp, c, err.n))),
                          bld, "owed"))

\* mutant: a saved InvalidData is cleared like the truncation states
resume_clearsCorrupt(inp, c, msgs, err, bld) ==
    CASE err.kind = "None" -> Go(c, msgs, err)
      [] err.kind = "VarintEof" -> Go(read_varint(inp, c).c, msgs, ErrNone)
      [] err.kind = "Eof" -> resumeEof(inp, c, msgs, err, bld)
      [] err.kind = "InvalidData" -> Go(c, msgs, ErrNone)

\* the `match parser_context.error` that opens read_next_token_raw
resume(inp, c, msgs, err, bld) ==
    CASE err.kind = "None" -> Go(c, msgs, err)
      [] err.kind = "VarintEof" -> Go(read_varint(inp, c).c, msgs, ErrNone)
      [] err.kind = "Eof" -> resumeEof(inp, c, msgs, err, bld)
      [] err.kind = "InvalidData" ->
            Halt(Outcome("None", <<>>, 0, c, msgs, err, "poisoned"))

\* the loop, entered unless the match returned
afterResume(inp, msgs, bld, abs0, r) ==
    IF r.stop THEN r.out
    ELSE tokenLoop(inp, r.out.c, msgs, r.out.error, bld, abs0)

read_next_token_raw(inp, c, msgs, err, bld, abs0) ==
    afterResume(inp, msgs, bld, abs0, resume(inp, c, msgs, err, bld))

ParserContext_new == [messages |-> <<RootContext>>, error |-> ErrNone]

-----------------------------------------------------------------------------
(* The display-only guesser: src/core.rs and src/guesser.rs                 *)

\* chunk lengths above this count as weird (relaxed preset)
RelaxedMaxChunk == 500

\* core::read_varint over a Cursor: Ok(Some), Ok(None), Err(Eof), Err(InvalidVarint)
RECURSIVE coreVarintLoop(_, _, _, _)
coreVarintLoop(d, c, n, acc) ==
    IF eof(d, c)
    THEN [st |-> IF n = 0 THEN "None" ELSE "Eof", c |-> c, val |-> NoVal]
    ELSE LET b    == d[c + 1]
             bits == b % 128
             acc2 == IF n < 4
                     THEN [acc EXCEPT !.lo = acc.lo + bits * Pow(128, n)]
                     ELSE [acc EXCEPT !.hi =
                              Append(acc.hi, IF n = 9 THEN bits % 2 ELSE bits)]
             pos  == 7 * (n + 1)
         IN  IF b < 128
             THEN IF b = 0 /\ pos # 7
                  THEN [st |-> "InvalidVarint", c |-> c + 1, val |-> NoVal]
                  ELSE [st |-> "Some", c |-> c + 1, val |-> acc2]
             ELSE IF pos >= 64
                  THEN [st |-> "InvalidVarint", c |-> c + 1, val |-> NoVal]
                  ELSE coreVarintLoop(d, c + 1, n + 1, acc2)

core_read_varint(d, c) == coreVarintLoop(d, c, 0, NoVal)

\* core::parse_varint_bytes: the same loop over a buffer; running out is an error
parse_varint_bytes(buf) ==
    LET r == coreVarintLoop(buf, 0, 0, NoVal)
    IN  IF r.st = "Some" THEN [ok |-> TRUE, val |-> r.val]
        ELSE [ok |-> FALSE, val |-> NoVal]

\* core::read_identifier once its varint r is read
identifierOf(r) ==
    [st |-> r.st, c |-> r.c, key |-> FieldNumber(r.val), wire_type |-> r.val.lo % 8]

read_identifier(d, c) == identifierOf(core_read_varint(d, c))

\* read_value, wire type 0: bytes up to and including the first one below 0x80
RECURSIVE varintBytes(_, _, _)
varintBytes(d, c, from) ==
    IF eof(d, c)
    THEN [st |-> IF c = from THEN "None" ELSE "Eof", c |-> c, buf |-> <<>>]
    ELSE IF d[c + 1] < 128
    THEN [st |-> "Some", c |-> c + 1, buf |-> SubSeq(d, from + 1, c + 1)]
    ELSE varintBytes(d, c + 1, from)

\* read_value, wire types 1 and 5: read_exact of width bytes
exactBytes(d, c, width) ==
    IF has(d, c, width)
    THEN [st |-> "Some", c |-> c + width, buf |-> bytesAt(d, c, width)]
    ELSE [st |-> "None", c |-> Len(d), buf |-> <<>>]

\* read_value, wire type 2: the length varint l is read
lengthDelimited(d, l) ==
    IF l.st = "None" THEN [st |-> "None", c |-> l.c, buf |-> <<>>]
    ELSE IF l.st # "Some" THEN [st |-> l.st, c |-> l.c, buf |-> <<>>]
    ELSE exactBytes(d, l.c, AsLen(l.val))

\* core::read_value: Ok(Some(buf)), Ok(None) or Err
read_value(d, c, wire_type) ==
    CASE wire_type = 0 -> varintBytes(d, c, c)
      [] wire_type = 1 -> exactBytes(d, c, 8)
      [] wire_type = 2 -> lengthDelimited(d, core_read_varint(d, c))
      [] wire_type \in {3, 4} -> [st |-> "Some", c |-> c, buf |-> <<wire_type>>]
      [] wire_type = 5 -> exactBytes(d, c, 4)
      [] OTHER -> [st |-> "InvalidWireType", c |-> c, buf |-> <<>>]

\* the final verdict of the relaxed guesser
relaxedVerdict(valid_fields_found, weird) == valid_fields_found > 0 /\ weird <= 1

\* the end of one pass of the guesser's loop: one more valid field, and a
\* break when the cursor is at the end of the data
RECURSIVE relaxedLoop(_, _, _, _, _)
relaxedNext(d, c, i, found, weird) ==
    IF c >= Len(d) THEN GuessOk(relaxedVerdict(found + 1, weird))
    ELSE relaxedLoop(d, c, i + 1, found + 1, weird)

\* wire type 2 in the guesser: the value bytes are parsed as the length len
relaxedChunk(d, i, found, weird, val, len, length) ==
    IF val.st # "Some" THEN GuessErr("Eof")
    ELSE IF ~len.ok THEN GuessErr("InvalidData")
    ELSE IF val.c + length > Len(d) THEN GuessErr("Eof")
    ELSE relaxedNext(d, val.c + length, i, found,
                     IF length > RelaxedMaxChunk \/ length = 0 THEN weird + 1
                     ELSE weird)

\* the `match wire_type` of the guesser, for the value val of the field id
relaxedField(d, i, found, weird, id, val) ==
    CASE id.wire_type \in {3, 4} -> relaxedNext(d, id.c, i, found, weird)
      [] id.wire_type = 5 ->
            IF val.st = "Some" THEN relaxedNext(d, val.c, i, found, weird)
            ELSE GuessErr("Eof")
      [] id.wire_type = 1 ->
            IF val.st = "Some"
            THEN relaxedNext(d, val.c, i, found,
                             IF val.buf[8] \in {0, 255} THEN weird ELSE weird + 1)
            ELSE GuessErr("Eof")
      [] id.wire_type = 2 ->
            relaxedChunk(d, i, found, weird, val, parse_varint_bytes(val.buf),
                         AsLen(parse_varint_bytes(val.buf).val))
      [] id.wire_type = 0 ->
            IF val.st # "Some" THEN GuessErr("Eof")
            ELSE IF ~parse_varint_bytes(val.buf).ok THEN GuessErr("InvalidData")
            ELSE relaxedNext(d, val.c, i, found, weird)
      [] OTHER -> GuessErr("InvalidData")

\* the identifier id of the next field is read
relaxedStep(d, i, found, weird, id) ==
    IF id.st = "None" THEN GuessOk(relaxedVerdict(found, weird))
    ELSE IF id.st # "Some" THEN GuessErr("InvalidData")
    ELSE IF BadFieldNumber(id.key) THEN GuessErr("InvalidData")
    ELSE relaxedField(d, i, found, weird, id, read_value(d, id.c, id.wire_type))

\* the body of `for _ in 0..3` of guesser::guess_is_message
relaxedLoop(d, c, i, found, weird) ==
    IF i = ProbeFields THEN GuessOk(relaxedVerdict(found, weird))
    ELSE relaxedStep(d, i, found, weird, read_identifier(d, c))

guesser_guess_is_message(d) == relaxedLoop(d, 0, 0, 0, 0)

-----------------------------------------------------------------------------
(* Inputs                                                                   *)

\* longest enumerated byte string
MaxLen == 3

\* most slices one logical stream is cut into
MaxSlices == 2

\* most tokens one run may return
MaxTokens == 6

\* tag and value bytes the enumerated streams are built from: 0x01 (a
\* length, a value, a tag of field 0), 0x08 (field 1 Varint), 0x0A (field 1
\* Chunk), 0x0B (field 1 StartGroup) and 0x88 (a varint continuation byte)
Alphabet == {1, 8, 10, 11, 136}

SeqsUpTo(S, n) == UNION {[1..k -> S] : k \in 0..n}

\* b as the body of a field 1 Chunk
Wrap(b) == <<10, Len(b)>> \o b

\* PROTOBUF_EXAMPLE of the tests
PROTOBUF_EXAMPLE ==
    <<8, 143, 129, 235, 207, 224, 42,
      18, 8, 107, 111, 116, 108, 105, 110, 52, 54,
      58, 5, 0, 1, 3, 4, 7,
      66, 0,
      72, 250, 1,
      85, 0, 0, 72, 67,
      114, 10, 10, 8, 80, 79, 75, 69, 67, 79, 73, 78,
      114, 12, 10, 8, 83, 84, 65, 82, 68, 85, 83, 84, 16, 100>>

POKECOIN == <<80, 79, 75, 69, 67, 79, 73, 78>>

\* the tokens test_parser expects from PROTOBUF_EXAMPLE
ExampleTokens ==
    << <<107, 111, 116, 108, 105, 110, 52, 54>>, <<0, 1, 3, 4, 7>>, <<>>,
       POKECOIN, <<83, 84, 65, 82, 68, 85, 83, 84>> >>

\* two string fields "ab" and "c"
TwoStrings == <<10, 2, 97, 98, 10, 1, 99>>

\* a Bit32 and a Bit64 field, each followed by a string field
FixedFields == <<13, 1, 2, 3, 4, 10, 1, 97, 9, 1, 2, 3, 4, 5, 6, 7, 0, 10, 1, 98>>

\* a chunk of three groups and a bad tag (field 0), then a string field: the
\* classifier accepts the chunk, the fourth field is corrupt
LooksLikeMessage == Wrap(<<11, 11, 11, 1>>) \o <<10, 1, 97>>

\* a chunk holding the string "a", two groups and a bad tag
ChildThenCorrupt == Wrap(<<10, 1, 97, 11, 11, 1>>) \o <<10, 1, 98>>

\* a chunk whose fourth field is a string declared longer than what is left
\* of the chunk
ChildOverruns == Wrap(<<11, 11, 11, 10, 2, 97>>) \o <<98, 10, 1, 99>>

\* a bad tag (field 0), then a string field
BadTagThenString == <<1, 10, 1, 97>>

\* a chunk accepted as a message (one string field), then two string fields
MessageThenStrings == Wrap(<<10, 1, 97>>) \o <<10, 1, 98, 10, 1, 99>>

\* a chunk of three groups and the first byte of a two-byte tag, then the
\* second byte of that tag and more fields
TagAcrossChunkEnd == Wrap(<<11, 11, 11, 136>>) \o <<1, 1, 10, 1, 97>>

\* a message in a message, then a varint field
Nested == Wrap(Wrap(<<10, 1, 97, 8, 1>>) \o <<10, 1, 98>>) \o <<8, 150, 1>>

\* a Bit32 field of which only two value bytes exist
FixedCut == <<13, 1, 2>>

\* a chunk whose first tag has wire type code 6, then a string field
BadWireChunk == Wrap(<<14, 1>>) \o <<10, 1, 97>>

Fixtures ==
    {PROTOBUF_EXAMPLE, TwoStrings, FixedFields, LooksLikeMessage,
     ChildThenCorrupt, ChildOverruns, BadTagThenString, MessageThenStrings,
     TagAcrossChunkEnd, Nested, FixedCut, BadWireChunk}

Enumerated == SeqsUpTo(Alphabet, MaxLen)

\* the logical streams of the tokenizer runs
Streams == Enumerated \cup {Wrap(b) : b \in Enumerated} \cup Fixtures

\* printable bytes: ' ', '(' (field 5 Varint), '*' (field 5 Chunk),
\* 'K' (field 9 StartGroup), '~'
Printable == {32, 40, 42, 75, 126}

\* tags of a Chunk field: fields 1, 2, 4 and 16
ChunkTags == {<<10>>, <<18>>, <<34>>, <<130, 1>>}

\* one Chunk field wrapping L printable bytes, 1 <= L <= 100
ShortStrings ==
    {t \o <<L>> \o Rep(ch, L) : t \in ChunkTags, L \in 1..StrictMaxChunk,
                                ch \in Printable}
      \cup {Wrap(POKECOIN)}

\* byte ranges of printable ASCII only
PrintableStrings == SeqsUpTo(Printable, MaxLen) \cup {POKECOIN}

\* ten bytes that all have the continuation bit set
OverlongVarint == Rep(255, 10)

\* complete fields of every wire type, with and without a control byte, with
\* and without a penalty: Varint, empty Chunk, short Chunk, Chunk of 101
\* bytes, Bit64 ending in 'A', 0xFF and 0x00, Bit32, StartGroup, EndGroup
FieldPool ==
    {<<8, 1>>, <<40, 65>>, <<10, 0>>, <<42, 1, 65>>,
     <<42, StrictMaxChunk + 1>> \o Rep(65, StrictMaxChunk + 1),
     <<41>> \o Rep(65, 8), <<41>> \o Rep(65, 7) \o <<255>>,
     <<41>> \o Rep(65, 7) \o <<0>>, <<45, 65, 65, 65, 65>>, <<75>>, <<44>>}

\* bytes that follow the probed fields: printable, control, newline
Trailers == {<<>>, <<65>>, <<1>>, <<10>>}

\* up to four fields of the pool, then a trailer
FieldRuns ==
    {f[1] \o f[2] \o f[3] \o f[4] \o t :
        f \in [1..4 -> FieldPool \cup {<<>>}], t \in Trailers}

\* the byte ranges handed to the classifiers
GuessInputs ==
    Enumerated \cup {Wrap(b) : b \in Enumerated} \cup ShortStrings
               \cup PrintableStrings \cup {OverlongVarint} \cup FieldRuns

-----------------------------------------------------------------------------
(* The tokenizer as a state machine: one ParserContext fed slice by slice   *)

Unset == [ok |-> FALSE, v |-> FALSE, err |-> "unset"]

\* no wire primitive was applied yet
NoWire == [op |-> "none", res |-> NoVal]

GuessIdle == data = <<>> /\ strict = Unset /\ relaxed = Unset /\ wire = NoWire

\* last: ret, tok, at, ev, ctx as in Outcome; nth counts the calls on the
\* current slice that returned None, up to 2
NoCall(ret) ==
    [ret |-> ret, ev |-> "none", tok |-> <<>>, at |-> 0, ctx |-> RootContext,
     nth |-> 0]

TokIdle ==
    /\ stream = <<>> /\ rest = <<>> /\ base = 0 /\ nslice = 0 /\ input = <<>>
    /\ cursor = 0 /\ messages = <<>> /\ error = ErrNone /\ build = "debug"
    /\ panicked = FALSE /\ tokens = <<>> /\ spans = <<>>
    /\ last = NoCall("Init")

Init ==
    /\ stream \in Streams
    /\ build \in {"debug", "release"}
    /\ \E k \in 0..Len(stream) :
          /\ input = SubSeq(stream, 1, k)
          /\ rest = SubSeq(stream, k + 1, Len(stream))
    /\ base = 0
    /\ nslice = 1
    /\ cursor = 0
    /\ messages = ParserContext_new.messages
    /\ error = ParserContext_new.error
    /\ panicked = FALSE
    /\ tokens = <<>>
    /\ spans = <<>>
    /\ last = NoCall("Init")
    /\ GuessIdle

\* the state after a call of read_next_token_raw that gave o
Returned(o) ==
    /\ cursor' = o.c
    /\ messages' = o.messages
    /\ error' = o.error
    /\ panicked' = (o.ret = "Panic")
    /\ tokens' = IF o.ret = "Some" THEN Append(tokens, o.tok) ELSE tokens
    /\ spans' = IF o.ret = "Some"
                THEN Append(spans, <<base + o.at, base + o.at + Len(o.tok)>>)
                ELSE spans
    /\ last' = [ret |-> o.ret, ev |-> o.ev, tok |-> o.tok, at |-> o.at,
                ctx |-> o.ctx,
                nth |-> IF o.ret = "None" THEN Min(2, last.nth + 1) ELSE last.nth]

\* ProtobufParser::next_token
NextToken ==
    /\ ~panicked
    /\ Len(tokens) < MaxTokens
    /\ Returned(read_next_token_raw(input, cursor, messages, error, build, base))
    /\ UNCHANGED <<stream, rest, base, nslice, input, build, guessVars>>

\* the caller builds a ProtobufParser over the next slice with the same
\* ParserContext, after next_token returned None
NewSlice ==
    /\ ~panicked
    /\ last.ret = "None"
    /\ nslice < MaxSlices
    /\ \E k \in 0..Len(rest) :
          /\ nslice + 1 = MaxSlices => k = Len(rest)
          /\ input' = SubSeq(rest, 1, k)
          /\ rest' = SubSeq(rest, k + 1, Len(rest))
    /\ base' = base + Len(input)
    /\ nslice' = nslice + 1
    /\ cursor' = 0
    /\ last' = NoCall("NewSlice")
    /\ UNCHANGED <<stream, messages, error, build, panicked, tokens, spans,
                   guessVars>>

Next == NextToken \/ NewSlice

Spec == Init /\ [][Next]_vars

-----------------------------------------------------------------------------
(* The two classifiers applied to one byte range                            *)

GuessInit ==
    /\ data \in GuessInputs
    /\ strict = Unset
    /\ relaxed = Unset
    /\ wire = NoWire
    /\ TokIdle

\* guess_is_message(DataReader::new(data)) of example-parser.rs
RunStrict ==
    /\ strict = Unset
    /\ strict' = guess_is_message(data)
    /\ UNCHANGED <<data, relaxed, wire, tokVars>>

\* guesser::guess_is_message(data)
RunRelaxed ==
    /\ relaxed = Unset
    /\ relaxed' = guesser_guess_is_message(data)
    /\ UNCHANGED <<data, strict, wire, tokVars>>

GuessNext == RunStrict \/ RunRelaxed

GuessSpec == GuessInit /\ [][GuessNext]_vars

-----------------------------------------------------------------------------
(* The wire primitives applied to one byte range                            *)

\* largest of the consecutive small values that are encoded
MaxValue == 300

\* a u64 in the form read_varint keeps it
U64(lo, hi) == [lo |-> lo, hi |-> hi]

\* the 7-bit groups of v, least significant first
Groups(v) ==
    <<v.lo % 128, (v.lo \div 128) % 128, (v.lo \div 16384) % 128,
      v.lo \div 2097152>> \o v.hi

\* g without its most significant zero groups, keeping one group
RECURSIVE Trim(_)
Trim(g) ==
    IF Len(g) > 1 /\ g[Len(g)] = 0 THEN Trim(SubSeq(g, 1, Len(g) - 1)) ELSE g

\* the groups as bytes: all but the last carry the continuation bit
Flagged(g) == [i \in 1..Len(g) |-> IF i < Len(g) THEN g[i] + 128 ELSE g[i]]

\* the canonical (shortest) varint encoding of v
EncodeVarint(v) == Flagged(Trim(Groups(v)))

\* the same value encoded with one more group than needed
PadVarint(b) == [b EXCEPT ![Len(b)] = @ + 128] \o <<0>>

\* u64 values: the small ones, the values around each group boundary below
\* 2^28, and for each of them the values with groups above bit 28, up to
\* 2^64 - 1; and 1763000501 of test_read_varint
VarintValues ==
    {U64(lo, hi) :
        lo \in 0..MaxValue \cup {16383, 16384, 2097151, 2097152, 268435455},
        hi \in {<<>>, <<1>>, <<127>>, <<0, 1>>, <<5, 0, 0, 0, 127>>,
                <<0, 0, 0, 0, 0, 1>>, <<127, 127, 127, 127, 127, 1>>}}
      \cup {U64(152387765, <<6>>)}

\* each value with its canonical encoding
VarintPairs == {<<EncodeVarint(v), v>> : v \in VarintValues}

CanonicalVarints == {EncodeVarint(v) : v \in VarintValues}

\* field numbers that read_tag has to reject
ReservedFields == {0} \cup 19000..19999

\* tag varints of the reserved field numbers, for all eight wire type codes,
\* shortest and padded
ReservedTags ==
    {EncodeVarint(U64(f * 8 + w, <<>>)) : f \in ReservedFields, w \in 0..7}
      \cup {PadVarint(EncodeVarint(U64(f * 8 + w, <<>>))) :
               f \in ReservedFields, w \in 0..7}

\* tag varints of field numbers next to the reserved ones, and of the
\* largest field numbers
OtherTags ==
    {EncodeVarint(U64(f * 8 + w, hi)) :
        f \in {1, 2, 18999, 20000, 33554431}, w \in 0..7,
        hi \in {<<>>, <<1>>, <<127>>, <<127, 1>>}}

\* one-byte tags of Bit32 (fields 1, 2) and Bit64 (fields 1, 2) fields
FixedTags == {13, 21, 9, 17}

\* the width of the value of a fixed-width field with tag byte t
FixedWidth(t) == IF t % 8 = 5 THEN 4 ELSE 8

\* a fixed-width tag followed by 0 to 9 value bytes
FixedInputs == {<<t>> \o Rep(x, k) : t \in FixedTags, x \in {0, 255}, k \in 0..9}

\* up to eleven bytes with the continuation bit, alone or followed by a
\* byte without it
LongVarints ==
    {Rep(x, k) \o t : x \in {128, 255}, k \in 0..11, t \in {<<>>, <<1>>}}

\* the byte ranges handed to the wire primitives
WireInputs ==
    Enumerated \cup CanonicalVarints \cup ReservedTags \cup OtherTags
               \cup FixedInputs \cup LongVarints

WireInit ==
    /\ data \in WireInputs
    /\ strict = Unset
    /\ relaxed = Unset
    /\ wire = NoWire
    /\ TokIdle

\* read_varint(&mut DataReader::new(data))
ReadVarint ==
    /\ wire = NoWire
    /\ wire' = [op |-> "read_varint", res |-> read_varint(data, 0)]
    /\ UNCHANGED <<data, strict, relaxed, tokVars>>

\* read_tag(&mut DataReader::new(data))
ReadTag ==
    /\ wire = NoWire
    /\ wire' = [op |-> "read_tag", res |-> read_tag(data, 0)]
    /\ UNCHANGED <<data, strict, relaxed, tokVars>>

\* read_tagged_data(&mut DataReader::new(data))
ReadTaggedData ==
    /\ wire = NoWire
    /\ wire' = [op |-> "read_tagged_data", res |-> read_tagged_data(data, 0)]
    /\ UNCHANGED <<data, strict, relaxed, tokVars>>

WireNext == ReadVarint \/ ReadTag \/ ReadTaggedData

WireSpec == WireInit /\ [][WireNext]_vars

-----------------------------------------------------------------------------
(* Reference notions the properties are stated with                         *)

\* the first call on the current slice that returned None has just returned
FirstNone == last.ret = "None" /\ last.nth = 1

\* the whole stream was handed over as one slice
OneSlice == nslice = 1 /\ rest = <<>>

\* the stream was handed over as two slices, and the second is the current one
TwoSlices == nslice = 2 /\ rest = <<>>

\* the byte range b, read from offset c as a sequence of fields, consists of
\* complete fields up to its last byte
RECURSIVE CompleteFrom(_, _)
completeField(b, td, n) ==
    /\ td.st = "Ok"
    /\ IF td.chunk THEN has(b, td.c, n) /\ CompleteFrom(b, td.c + n)
       ELSE CompleteFrom(b, td.c)

CompleteFrom(b, c) ==
    IF c = Len(b) THEN TRUE
    ELSE completeField(b, read_tagged_data(b, c),
                       AsLen(read_tagged_data(b, c).length))

\* b is complete, and so is, recursively, every chunk body in it that the
\* strict classifier accepts
RECURSIVE WellFormedFrom(_, _)
wellFormedField(b, td, n) ==
    /\ td.st = "Ok"
    /\ IF td.chunk
       THEN /\ has(b, td.c, n)
            /\ looksLikeMessage(bytesAt(b, td.c, n))
                 => WellFormedFrom(bytesAt(b, td.c, n), 0)
            /\ WellFormedFrom(b, td.c + n)
       ELSE WellFormedFrom(b, td.c)

WellFormedFrom(b, c) ==
    IF c = Len(b) THEN TRUE
    ELSE wellFormedField(b, read_tagged_data(b, c),
                         AsLen(read_tagged_data(b, c).length))

\* the bodies, in order of appearance, of the chunk fields of b that the
\* strict classifier does not accept, descending into the ones it accepts;
\* reading stops at the first field that is not complete
RECURSIVE LeavesFrom(_, _)
leavesOfBody(body) ==
    IF looksLikeMessage(body) THEN LeavesFrom(body, 0) ELSE <<body>>

leavesOfField(b, td, n) ==
    IF td.st # "Ok" THEN <<>>
    ELSE IF ~td.chunk THEN LeavesFrom(b, td.c)
    ELSE IF ~has(b, td.c, n) THEN <<>>
    ELSE leavesOfBody(bytesAt(b, td.c, n)) \o LeavesFrom(b, td.c + n)

LeavesFrom(b, c) ==
    IF c >= Len(b) THEN <<>>
    ELSE leavesOfField(b, read_tagged_data(b, c),
                       AsLen(read_tagged_data(b, c).length))

IsPrefix(s, t) == Len(s) <= Len(t) /\ s = SubSeq(t, 1, Len(s))

\* the tokens that repeated next_token calls return for b given as one slice
\* to a fresh ParserContext, up to the first None
RECURSIVE tokensFrom(_, _, _, _, _, _)
tokensAfter(b, bld, fuel, o) ==
    IF fuel = 0 \/ o.ret # "Some" THEN <<>>
    ELSE <<o.tok>> \o tokensFrom(b, o.c, o.messages, o.error, bld, fuel - 1)

tokensFrom(b, c, msgs, err, bld, fuel) ==
    tokensAfter(b, bld, fuel, read_next_token_raw(b, c, msgs, err, bld, 0))

WholeTokens(b, bld) ==
    tokensFrom(b, 0, ParserContext_new.messages, ParserContext_new.error, bld,
               Len(b) + 1)

-----------------------------------------------------------------------------
(* Properties                                                               *)

\* C1: a well-formed stream with two or more tokens, cut at any offset into
\* two slices fed one after the other (calling until None on each), yields
\* the same tokens as the stream fed as one slice
C1_ResumptionIdempotent ==
    (TwoSlices /\ FirstNone /\ WellFormedFrom(stream, 0)
       /\ Len(LeavesFrom(stream, 0)) >= 2)
      => tokens = WholeTokens(stream, build)

\* C2 (as stated): for a complete stream given as one slice the tokens are,
\* in order, exactly the bodies of the chunk fields the strict classifier
\* does not accept, descending into accepted ones, and then None
C2_LeavesOfCompleteStream ==
    (OneSlice /\ FirstNone /\ CompleteFrom(stream, 0))
      => tokens = LeavesFrom(stream, 0)

\* C2 (amended): the same for a stream in which every chunk the classifier
\* accepts is itself made of complete fields; the tokens returned so far are
\* always a prefix of that list, the list is complete at the first None, and
\* PROTOBUF_EXAMPLE yields the five tokens of test_parser
C2_LeavesOfWellFormedStream ==
    (OneSlice /\ WellFormedFrom(stream, 0) /\ last.nth <= 1)
      => /\ IsPrefix(tokens, LeavesFrom(stream, 0))
         /\ FirstNone => tokens = LeavesFrom(stream, 0)
         /\ (FirstNone /\ stream = PROTOBUF_EXAMPLE) => tokens = ExampleTokens

C2_Witness ==
    /\ OneSlice /\ FirstNone /\ stream = PROTOBUF_EXAMPLE
    /\ tokens = ExampleTokens

\* C3: a backtrack returns exactly the bytes [s, s+L) of the chunk that was
\* pushed at offset s with declared length L, and leaves the cursor at s+L
C3_BacktrackReturnsChunk ==
    last.ev = "backtrack"
      => /\ last.ctx.abs + last.ctx.declared <= Len(stream)
         /\ last.tok = bytesAt(stream, last.ctx.abs, last.ctx.declared)
         /\ base + cursor = last.ctx.abs + last.ctx.declared

\* C4: once the persisted error is InvalidData it stays InvalidData, and no
\* later call returns a token
C4_CorruptIsSticky ==
    [][error.kind = "InvalidData"
         => /\ error'.kind = "InvalidData"
            /\ tokens' = tokens
            /\ last'.ret # "Some"
            /\ messages' = messages]_vars

\* a call on a second, well-formed slice returned None because of the
\* InvalidData saved on the first slice
C4_Witness ==
    /\ error.kind = "InvalidData" /\ nslice = 2 /\ last.ev = "poisoned"
    /\ input # <<>> /\ WellFormedFrom(input, 0) /\ LeavesFrom(input, 0) # <<>>

\* C5: every token starts at or after the end of the token before it
C5_TokensInOrder ==
    \A i \in 1..(Len(spans) - 1) : spans[i + 1][1] >= spans[i][2]

\* a byte below 0x20 other than 0x0A among the first four bytes of d
CtrlInFirstFour(d) ==
    \E i \in 1..Min(4, Len(d)) : d[i] < 32 /\ d[i] # 10

\* C6 (as stated): the strict classifier returns Ok(true) for every single
\* Chunk field wrapping 1..100 printable bytes
C6_ShortStringAccepted ==
    (data \in ShortStrings /\ strict # Unset) => strict = GuessOk(TRUE)

\* C6 (amended): for such a range it returns Ok(true) when one of the first
\* four bytes is below 0x20 and not 0x0A, and Ok(false) otherwise
C6_ShortStringAcceptedIfCtrl ==
    (data \in ShortStrings /\ strict # Unset)
      => strict = GuessOk(CtrlInFirstFour(data))

C6_Witness == data = Wrap(POKECOIN) /\ strict = GuessOk(TRUE)

AllPrintable(d) == \A i \in 1..Len(d) : 32 <= d[i] /\ d[i] <= 126

\* C7: the strict classifier never returns Ok(true) for printable ASCII
C7_PrintableRejected ==
    (AllPrintable(data) /\ strict # Unset) => strict # GuessOk(TRUE)

C7_Witness == data = POKECOIN /\ strict = GuessOk(FALSE)

\* C8: the relaxed guesser returns Ok(true) for a single Chunk field
\* wrapping a short non-empty payload
C8_RelaxedAcceptsShortString ==
    (data \in ShortStrings /\ relaxed # Unset) => relaxed = GuessOk(TRUE)

\* C9: the relaxed guesser returns Ok(false) for "POKECOIN"
C9_RelaxedRejectsPokecoin ==
    (data = POKECOIN /\ relaxed # Unset) => relaxed = GuessOk(FALSE)

\* C10: the relaxed guesser returns Ok(false) for the empty input and for
\* ten bytes that all have the continuation bit set
C10_RelaxedFalseWithoutTag ==
    (data \in {<<>>, OverlongVarint} /\ relaxed # Unset)
      => relaxed = GuessOk(FALSE)

\* the bounded contexts of the stack
Bounded == {i \in 1..Len(messages) : messages[i].length.some}

\* the bytes of the message of context m that lie behind the current slice
NotYetSupplied(m) == m.abs + m.declared - (base + Len(input))

\* C11: after next_token returned None with a state other than Corrupt, every
\* bounded context has start 0 and a length equal to the bytes of its message
\* that are still to come in later slices
C11_ContextsRebased ==
    (last.ret = "None" /\ error.kind # "InvalidData")
      => \A i \in Bounded :
            /\ messages[i].start = 0
            /\ messages[i].length.v = NotYetSupplied(messages[i])

\* C12: when a chunk header is read and the slice holds fewer bytes than the
\* declared length, next_token returns None and the persisted state is a
\* TruncatedFixed value for the missing bytes
C12_TruncatedBodySaved ==
    last.ev = "peekfail"
      => /\ last.ret = "None"
         /\ error.kind = "Eof" /\ error.n > 0
         /\ \A i \in Bounded : messages[i].start = 0

\* the step is a call of next_token that did not panic
Called == last'.ret # "NewSlice" /\ ~panicked'

\* the state and return value that the call leaves are those of o
Leaves(o) ==
    /\ cursor' = o.c /\ messages' = o.messages /\ error' = o.error
    /\ last'.ret = o.ret /\ last'.tok = o.tok

\* C13: a call with persisted state TruncatedFixed(n) on a slice of m bytes
\* skips n bytes, clears the state and goes on extracting if m >= n, and
\* otherwise returns None with persisted state TruncatedFixed(n - m)
C13_OwedBytesSkipped ==
    [][(error.kind = "Eof" /\ Called)
         => IF has(input, cursor, error.n)
            THEN Leaves(tokenLoop(input, cursor + error.n, messages, ErrNone,
                                  build, base))
            ELSE /\ last'.ret = "None"
                 /\ error' = ErrEof(error.n - remains(input, cursor))]_vars

\* C14: read_tagged_data on a Bit32 (Bit64) field skips exactly 4 (8) value
\* bytes when the slice has them, and with only k of them left it fails with
\* TruncatedFixed(4 - k) (TruncatedFixed(8 - k))
C14_FixedWidthOwed ==
    (wire.op = "read_tagged_data" /\ data \in FixedInputs)
      => IF Len(data) - 1 >= FixedWidth(data[1])
         THEN wire.res = Others("Ok", 1 + FixedWidth(data[1]))
         ELSE /\ wire.res.st = "Eof"
              /\ wire.res.n = FixedWidth(data[1]) - (Len(data) - 1)

\* C19: read_tag returns InvalidData for every tag varint whose field number
\* is 0 or in 19000..19999, whatever its three low bits are
C19_ReservedFieldsRejected ==
    (wire.op = "read_tag" /\ data \in ReservedTags)
      => wire.res.st = "InvalidData"

\* the tag of field 19500 with wire type Chunk was read and rejected
C19_Witness ==
    /\ wire.op = "read_tag" /\ data = <<226, 194, 9>> /\ data \in ReservedTags
    /\ wire.res.st = "InvalidData"

\* C20: read_varint on the canonical encoding of v returns v and consumes
\* exactly the encoding, and encoding the result gives the bytes read
C20_VarintRoundTrip ==
    (wire.op = "read_varint" /\ data \in CanonicalVarints)
      => /\ wire.res.st = "Ok"
         /\ wire.res.c = Len(data)
         /\ <<data, wire.res.val>> \in VarintPairs
         /\ EncodeVarint(wire.res.val) = data

\* 2^64 - 1 was read back from its ten bytes
C20_Witness ==
    /\ wire.op = "read_varint"
    /\ data = Rep(255, 9) \o <<1>> /\ data \in CanonicalVarints
    /\ wire.res = [st |-> "Ok", c |-> 10,
                   val |-> U64(268435455, <<127, 127, 127, 127, 127, 1>>)]

\* C15: when the slice ends exactly at a field boundary (it consists of
\* complete fields, nothing is interrupted and nothing is corrupt), the call
\* that reaches its end returns None and leaves no persisted error state
C15_CleanEndLeavesNoState ==
    (nslice = 1 /\ WellFormedFrom(input, 0) /\ FirstNone)
      => cursor = Len(input) /\ error = ErrNone

\* C16: in every state of the ParserContext the stack is not empty, its
\* first context is the root with length None, and every context above it
\* has a bounded length
C16_RootStaysAtBottom ==
    /\ Len(messages) >= 1
    /\ messages[1] = RootContext
    /\ \A i \in 2..Len(messages) : messages[i].length.some

\* two nested messages were pushed and popped again, and the root is left
C16_Witness ==
    /\ stream = Nested /\ OneSlice /\ FirstNone
    /\ tokens = << <<97>>, <<98>> >>
    /\ messages = <<RootContext>>

\* C17: when next_token returns a token, no bounded context on the stack
\* has consumed more than its length (stated for a stream given as one
\* slice, where no context has been rebased)
C17_TokenStaysInsideContext ==
    (nslice = 1 /\ last.ret = "Some")
      => \A i \in Bounded :
            cursor - messages[i].start <= messages[i].length.v

\* the call met InvalidData while a bounded context was the active one
CorruptInBounded == last.ev \in {"backtrack", "seekfail", "backtrackfail"}

\* C18: the persisted state becomes Corrupt only through an InvalidData met
\* while the root is the active context; an InvalidData met while a bounded
\* context is active does not make the persisted state Corrupt and ends the
\* call with that context returned as a token
C18_CorruptOnlyAtRoot ==
    [][/\ (error.kind # "InvalidData" /\ error'.kind = "InvalidData")
            => (last'.ev = "rootcorrupt" /\ Len(messages') = 1)
       /\ (Called /\ CorruptInBounded')
            => (last'.ret = "Some" /\ error'.kind # "InvalidData")]_vars

\* the index of the first byte of d without the continuation bit, 0 if none
RECURSIVE Terminator(_, _)
Terminator(d, i) ==
    IF i > Len(d) THEN 0 ELSE IF d[i] < 128 THEN i ELSE Terminator(d, i + 1)

\* C21: read_varint fails with VarintEof exactly when the bytes run out
\* before a byte without the continuation bit and fewer than 10 were read,
\* fails with InvalidData exactly when the first 10 bytes all carry the
\* continuation bit, and never consumes more than 10 bytes
C21_VarintErrors ==
    wire.op = "read_varint"
      => /\ wire.res.st = "VarintEof"
              <=> (Terminator(data, 1) = 0 /\ Len(data) < 10)
         /\ wire.res.st = "InvalidData"
              <=> (Terminator(data, 1) \notin 1..10 /\ Len(data) >= 10)
         /\ wire.res.st = "VarintEof" => wire.res.c = Len(data)
         /\ wire.res.c <= 10

\* eleven continuation bytes were rejected after the tenth
C21_Witness ==
    /\ wire.op = "read_varint" /\ data = Rep(255, 11)
    /\ wire.res.st = "InvalidData" /\ wire.res.c = 10

\* C22: in every state every context has start <= the cursor position, no
\* context length and no TruncatedFixed remainder is the result of a
\* subtraction that went below zero, and no call has panicked
C22_NoUnderflow ==
    /\ ~panicked
    /\ \A i \in 1..Len(messages) :
          /\ messages[i].start <= cursor
          /\ messages[i].length.some => messages[i].length.v >= 0
    /\ error.n >= 0

\* C23: a token returned while bounded contexts are on the stack lies inside
\* the byte range [start, start + length) of each of them (stated for a
\* stream given as one slice, where no context has been rebased)
C23_TokenInsideContexts ==
    (nslice = 1 /\ last.ret = "Some")
      => \A i \in Bounded :
            /\ messages[i].start <= last.at
            /\ last.at + Len(last.tok)
                 <= messages[i].start + messages[i].length.v

\* C24: the first call on a new slice with persisted state TruncatedVarint
\* returns None and keeps TruncatedVarint if the slice has no byte without
\* the continuation bit, and otherwise clears the state and goes on
\* extracting behind the first such byte
C24_TruncatedVarintKept ==
    [][(error.kind = "VarintEof" /\ last.ret = "NewSlice" /\ Called)
         => IF Terminator(input, 1) = 0
            THEN last'.ret = "None" /\ error'.kind = "VarintEof"
            ELSE Leaves(tokenLoop(input, Terminator(input, 1), messages,
                                  ErrNone, build, base))]_vars

\* the field read at offset h of b is a chunk header that ends at offset s
\* and declares n bytes
HeaderAt(b, h, s, n) ==
    /\ read_tagged_data(b, h).st = "Ok"
    /\ read_tagged_data(b, h).chunk
    /\ read_tagged_data(b, h).c = s
    /\ AsLen(read_tagged_data(b, h).length) = n

\* the context m was pushed for a chunk of the slice that the classifier
\* accepts, with start behind the chunk's length varint and the declared
\* length
PushedForChunk(m) ==
    /\ \E h \in 0..(m.start - 1) : HeaderAt(input, h, m.start, m.length.v)
    /\ has(input, m.start, m.length.v)
    /\ looksLikeMessage(bytesAt(input, m.start, m.length.v))

\* the slice starts with a chunk that the classifier accepts, that is made
\* of complete fields and that holds a token; td is its header
StartsWithMessage(td) ==
    /\ td.st = "Ok" /\ td.chunk /\ has(input, td.c, AsLen(td.length))
    /\ looksLikeMessage(bytesAt(input, td.c, AsLen(td.length)))
    /\ WellFormedFrom(bytesAt(input, td.c, AsLen(td.length)), 0)
    /\ LeavesFrom(bytesAt(input, td.c, AsLen(td.length)), 0) # <<>>

\* the first call pushed the context of the chunk with header td and
\* returned the first token inside it
DescendedInto(td) ==
    /\ Len(messages) >= 2
    /\ messages[2].start = td.c
    /\ messages[2].length = SomeLen(AsLen(td.length))
    /\ tokens[1] = LeavesFrom(bytesAt(input, td.c, AsLen(td.length)), 0)[1]
    /\ td.c <= last.at /\ cursor <= td.c + AsLen(td.length)

\* C25: for a chunk the strict classifier accepts, exactly one context is
\* pushed, with start = the cursor behind the chunk's length varint and
\* length = the declared length, and no byte of the chunk is consumed by the
\* push; a chunk is skipped and returned only when the classifier did not
\* accept it (stated for the first slice, where no context has been rebased)
C25_PushFrame ==
    (nslice = 1 /\ last.ret = "Some")
      => /\ \A i \in Bounded : PushedForChunk(messages[i])
         /\ \A i \in 1..(Len(messages) - 1) :
               messages[i].start < messages[i + 1].start
         /\ last.ev = "token" => ~looksLikeMessage(last.tok)
         /\ (Len(tokens) = 1 /\ StartsWithMessage(read_tagged_data(input, 0)))
               => DescendedInto(read_tagged_data(input, 0))

\* the first call descended into a message inside a message and returned
\* the string in it
C25_Witness ==
    /\ stream = Nested /\ nslice = 1 /\ last.ev = "token" /\ tokens = << <<97>> >>
    /\ Len(messages) = 3 /\ messages[2].start = 2 /\ messages[3].start = 4
    /\ messages[3].length = SomeLen(5) /\ cursor = 7

\* exactly one call of next_token was made, on the first slice
AfterFirstCall ==
    nslice = 1 /\ last.ret \notin {"Init", "NewSlice"}
      /\ Len(tokens) + last.nth <= 1

\* the slice starts with a chunk, with header td, that lies in the slice and
\* on which the strict classifier returns an error
StartsWithUnprobable(td) ==
    /\ td.st = "Ok" /\ td.chunk /\ has(input, td.c, AsLen(td.length))
    /\ ~guess_is_message(bytesAt(input, td.c, AsLen(td.length))).ok

\* the call returned the body of the chunk with header td, left the cursor
\* behind it and changed neither the stack nor the persisted state
ReturnedWhole(td) ==
    /\ last.ret = "Some" /\ last.ev = "token"
    /\ tokens = <<bytesAt(input, td.c, AsLen(td.length))>>
    /\ last.at = td.c /\ cursor = td.c + AsLen(td.length)
    /\ messages = ParserContext_new.messages
    /\ error = ParserContext_new.error

\* C26: a chunk on which the strict classifier returns an error is treated
\* as not a message: its whole body is skipped and returned as one token,
\* the stack is unchanged and the persisted state is not Corrupt
C26_ProbeErrorIsNotMessage ==
    /\ (AfterFirstCall /\ StartsWithUnprobable(read_tagged_data(input, 0)))
          => ReturnedWhole(read_tagged_data(input, 0))
    /\ (last.ev = "token" /\ ~guess_is_message(last.tok).ok)
          => (cursor = last.at + Len(last.tok) /\ error.kind # "InvalidData")

\* the chunk 0E 01, whose tag has wire type code 6, was returned whole
C26_Witness ==
    /\ stream = BadWireChunk /\ AfterFirstCall /\ tokens = << <<14, 1>> >>
    /\ guess_is_message(<<14, 1>>) = GuessErr("InvalidData")
    /\ cursor = 4 /\ messages = <<RootContext>> /\ error = ErrNone

\* the offset behind the field of d whose tag t was read
fieldEnd(d, t) ==
    CASE t.wt \in {"StartGroup", "EndGroup"} -> t.c
      [] t.wt = "ThirtyTwoBit" -> t.c + 4
      [] t.wt = "SixtyFourBit" -> t.c + 8
      [] t.wt = "Varint" -> read_varint(d, t.c).c
      [] t.wt = "Chunk" ->
            read_varint(d, t.c).c + AsLen(read_varint(d, t.c).val)

\* the offsets at which the first k fields of d from offset c start, for a
\* range whose leading fields are all complete
RECURSIVE FieldStarts(_, _, _)
FieldStarts(d, c, k) ==
    IF k = 0 \/ c >= Len(d) THEN <<>>
    ELSE <<c>> \o FieldStarts(d, fieldEnd(d, read_tag(d, c)), k - 1)

\* a control byte other than the newline is among the first four bytes of
\* one of the fields that start at the offsets P
CtrlSeen(d, P) ==
    \E k \in 1..Len(P) : \E j \in 1..4 :
        P[k] + j <= Len(d) /\ d[P[k] + j] < 32 /\ d[P[k] + j] # 10

\* the field with tag t is a Bit64 whose eighth byte is neither 0x00 nor
\* 0xFF, or a Chunk whose declared length is 0 or above 100
Penalised(d, t) ==
    \/ t.wt = "SixtyFourBit" /\ d[t.c + 8] \notin {0, 255}
    \/ t.wt = "Chunk" /\ AsLen(read_varint(d, t.c).val) = 0
    \/ t.wt = "Chunk" /\ AsLen(read_varint(d, t.c).val) > 100

WeirdCount(d, P) ==
    Cardinality({k \in 1..Len(P) : Penalised(d, read_tag(d, P[k]))})

\* C27: whenever the strict classifier returns without error, its result is
\* (ctrl and weird <= 1): ctrl iff a byte below 0x20 other than 0x0A is in
\* the up-to-4-byte window at the start of one of the at most 3 probed
\* fields, weird the number of probed Bit64 fields whose last byte is
\* neither 0x00 nor 0xFF plus probed Chunk fields of declared length 0 or
\* above 100
C27_StrictVerdict ==
    strict.ok
      => strict.v = (CtrlSeen(data, FieldStarts(data, 0, 3))
                       /\ WeirdCount(data, FieldStarts(data, 0, 3)) <= 1)

\* two empty chunks and a varint with a control byte: ctrl, weird = 2
C27_Witness ==
    /\ data = <<10, 0, 10, 0, 8, 1>> /\ strict = GuessOk(FALSE)
    /\ CtrlSeen(data, <<0, 2, 4>>) /\ WeirdCount(data, <<0, 2, 4>>) = 2

\* the offset behind the last of the fields of d that start at the offsets P
EndOfFields(d, P) == fieldEnd(d, read_tag(d, P[Len(P)]))

\* d up to the end of its third field, followed by the bytes t
WithTrailer(d, t) ==
    SubSeq(d, 1, EndOfFields(d, FieldStarts(d, 0, 3))) \o t

\* the classifier found three complete fields at the start of the range
ThreeFields ==
    strict.ok /\ Len(FieldStarts(data, 0, 3)) = 3

\* C28: the result of the strict classifier depends only on the first 3
\* fields: a range that agrees with data up to the end of the third complete
\* field gets the same result, whatever bytes follow
C28_BoundedLookahead ==
    ThreeFields => \A t \in Trailers : guess_is_message(WithTrailer(data, t)) = strict

\* the field number f, in the form of FieldNumber, is below 2^29
Fits29(f) == f.hi < 16

\* C29: every field number read_tag returns fits in 29 bits, is not 0 and is
\* not in 19000..19999; a tag varint whose value >> 3 is above 2^29 - 1 is
\* rejected as Corrupt
C29_FieldNumberIn29Bits ==
    wire.op = "read_tag"
      => /\ wire.res.st = "Ok"
              => /\ Fits29(wire.res.fn)
                 /\ ~(wire.res.fn.hi = 0 /\ wire.res.fn.lo \in ReservedFields)
         /\ (read_varint(data, 0).st = "Ok"
               /\ (~Fits29(FieldNumber(read_varint(data, 0).val))
                     \/ ~FitsU32(read_varint(data, 0).val)))
              => wire.res.st = "InvalidData"

\* the wire types in the order of their codes 0..5
WireTypeNames ==
    <<"Varint", "SixtyFourBit", "Chunk", "StartGroup", "EndGroup",
      "ThirtyTwoBit">>

\* f is the value v >> 3, in the form of FieldNumber
IsShiftedBy3(f, v) ==
    /\ f.lo * 8 + (v.lo % 8) = v.lo
    /\ f.hi = (IF v.hi = <<>> THEN 0 ELSE v.hi[1])

\* the field number of the tag varint v is valid: 1 .. 2^29 - 1 and not
\* in 19000..19999
ValidFieldNumber(v) ==
    /\ FitsU32(v) /\ Fits29(FieldNumber(v))
    /\ ~(FieldNumber(v).hi = 0 /\ v.lo \div 8 \in ReservedFields)

\* read_tag returned res for a range that starts with the varint r
TagSplit(r, res) ==
    /\ (ValidFieldNumber(r.val) /\ r.val.lo % 8 <= 5)
          => /\ res.st = "Ok" /\ res.c = r.c
             /\ IsShiftedBy3(res.fn, r.val)
             /\ res.wt = WireTypeNames[(r.val.lo % 8) + 1]
    /\ r.val.lo % 8 \in {6, 7} => res.st = "InvalidData"

\* C30: for a tag varint v with a valid field number read_tag returns
\* (v >> 3, w), w the wire type of code v mod 8 under 0 = Varint, 1 = Bit64,
\* 2 = Chunk, 3 = StartGroup, 4 = EndGroup, 5 = Bit32, and Corrupt when
\* v mod 8 is 6 or 7; the tag of field f and code w encodes back to (f, w)
C30_TagSplit ==
    wire.op = "read_tag"
      => /\ read_varint(data, 0).st = "Ok"
               => TagSplit(read_varint(data, 0), wire.res)
         /\ \A f \in {1, 2, 3, 18999, 20000}, w \in 0..5 :
               data = EncodeVarint(U64(f * 8 + w, <<>>))
                 => /\ wire.res.st = "Ok" /\ wire.res.fn = [lo |-> f, hi |-> 0]
                    /\ wire.res.wt = WireTypeNames[w + 1]

\* test_read_tag: 0A is (1, Chunk)
C30_Witness ==
    /\ data = <<10>> /\ wire.op = "read_tag" /\ wire.res.st = "Ok"
    /\ wire.res.fn = [lo |-> 1, hi |-> 0] /\ wire.res.wt = "Chunk"
    /\ wire.res.c = 1

\* read_tagged_data returned res for a group tag that ends at offset e
GroupSkipsNothing(res, e) ==
    res.st = "Ok" /\ ~res.chunk /\ res.c = e

\* read_tagged_data returned res for a Chunk tag whose length varint v ends
\* at offset e
HeaderOnly(res, v, e) ==
    res.st = "Ok" /\ res.chunk /\ res.length = v.val /\ res.c = e

\* read_tagged_data returned res for the range d whose tag t was read
FrameOf(d, t, res) ==
    /\ t.wt \in {"StartGroup", "EndGroup"}
          => GroupSkipsNothing(res, Terminator(d, 1))
    /\ (t.wt = "Chunk" /\ read_varint(d, t.c).st = "Ok")
          => HeaderOnly(res, read_varint(d, t.c),
                        Terminator(d, Terminator(d, 1) + 1))

\* C31: read_tagged_data on a Chunk field returns the declared length with
\* the cursor right behind the length varint, whether or not the body is
\* there, and on a StartGroup or EndGroup field returns Others with the
\* cursor right behind the tag
C31_HeaderOnly ==
    wire.op = "read_tagged_data"
      => /\ read_tag(data, 0).st = "Ok" => FrameOf(data, read_tag(data, 0), wire.res)
         /\ \A L \in 0..127 :
               (Len(data) >= 2 /\ data[1] = 10 /\ data[2] = L)
                 => (wire.res.chunk /\ AsLen(wire.res.length) = L /\ wire.res.c = 2)

\* the header 0A 08 with no body byte behind it: length 8, cursor at 2
C31_Witness ==
    /\ data = <<10, 8>> /\ wire.op = "read_tagged_data"
    /\ wire.res.st = "Ok" /\ wire.res.chunk
    /\ wire.res.length = U64(8, <<>>) /\ wire.res.c = 2

\* the starts of the bounded contexts, bottom first, then the cursor
StackKey(msgs, c) ==
    [i \in 1..Len(msgs) |-> IF i < Len(msgs) THEN msgs[i + 1].start ELSE c]

\* a is before b in the lexicographic order, a proper prefix coming first
LexLess(a, b) ==
    \/ \E i \in 1..Min(Len(a), Len(b)) :
          a[i] < b[i] /\ \A j \in 1..(i - 1) : a[j] = b[j]
    \/ Len(a) < Len(b) /\ \A j \in 1..Len(a) : a[j] = b[j]

\* a call on the same slice that returned a token advanced the cursor or
\* popped a context, and moved the key of stack and cursor strictly up
TokenMakesProgress ==
    (last'.ret = "Some" /\ nslice' = nslice)
      => /\ cursor' > cursor \/ Len(messages') < Len(messages)
         /\ LexLess(StackKey(messages, cursor), StackKey(messages', cursor'))

\* the keys range over a finite set: the cursor is inside the slice, every
\* start is inside the stream, every push consumed a chunk header
KeyIsBounded ==
    /\ 0 <= cursor /\ cursor <= Len(input)
    /\ \A i \in 1..Len(messages) :
          0 <= messages[i].start /\ messages[i].start <= Len(stream)
    /\ 2 * (Len(messages) - 1) <= base + cursor

=============================================================================
